---- MODULE Spec2Model ----
(***************************************************************************)
(* Financial_ratio_learn: three Streamlit scripts (balance sheet, profit   *)
(* and loss, financial ratios).  A script runs top to bottom once when the *)
(* page is loaded and once more after every widget event; the values shown *)
(* are what that pass computes from the widget values.                     *)
(*                                                                         *)
(* Amounts are the floats returned by st.number_input.  They are modelled  *)
(* as exact integers counted in sub-units, Scale sub-units to the currency *)
(* unit, so 200000.0 is 200000 * Scale and the tolerance "1" of the        *)
(* balance checks is Scale.  Quotients are exact rationals in lowest terms *)
(* <<numerator, denominator>> with a positive denominator.                 *)
(***************************************************************************)
EXTENDS Integers, Sequences, FiniteSets, TLC

(***************************************************************************)
(* Bounds of the model.                                                    *)
(***************************************************************************)
\* sub-units per currency unit (2: amounts in halves)
Scale == 2
\* at most this many balance-sheet Learn fields differ from their defaults
MaxEditedBS == 2
\* at most this many P&L Learn fields differ from their defaults
MaxEditedPL == 3
\* at most this many ratio-page fields differ from their defaults
MaxEditedRT == 2
\* arguments of a direct helper call range over -1 .. MaxArg sub-units
MaxArg == 5
\* denominators of the ratio values passed to get_ratio_status: 1 .. MaxDen
MaxDen == 4
\* at most this many fields of a balance sheet challenge differ from their defaults
MaxEditedCH == 2
\* the tax rules are applied to earnings of -5 * MaxEbt .. 5 * MaxEbt sub-units
MaxEbt == 20

(***************************************************************************)
(* Arithmetic.                                                             *)
(***************************************************************************)
Abs(x) == IF x < 0 THEN -x ELSE x

\* amount of n whole currency units
Units(n) == n * Scale

RECURSIVE GCD(_, _)
GCD(a, b) == IF b = 0 THEN a ELSE GCD(b, a % b)

Zero == <<0, 1>>

\* the quotient n / d (d # 0) in lowest terms, sign in the numerator
Quot(n, d) ==
    LET g == GCD(Abs(n), Abs(d))
        s == IF d < 0 THEN -1 ELSE 1
    IN  <<(s * n) \div g, (s * d) \div g>>

\* comparisons of a rational q with the rational a / b (b > 0)
GeqR(q, a, b) == q[1] * b >= a * q[2]
LtR(q, a, b) == q[1] * b < a * q[2]
GtR(q, a, b) == q[1] * b > a * q[2]

\* x (sub-units, x >= 0) rounded to whole currency units, ties to even: what
\* the ",.0f" format prints
RoundHalfEven(x) ==
    LET q == x \div Scale
        r == x % Scale
    IN  IF 2 * r < Scale THEN q
        ELSE IF 2 * r > Scale THEN q + 1
        ELSE IF q % 2 = 0 THEN q ELSE q + 1

\* format_currency: f"${value:,.0f}", the whole number of currency units shown
format_currency(value) ==
    IF value < 0 THEN -RoundHalfEven(-value) ELSE RoundHalfEven(value)

(***************************************************************************)
(* balance_sheet_learn.py                                                  *)
(***************************************************************************)
\* check_balance with the tolerance taken inclusively (<= 1)
check_balance_inclusive(assets, liabilities, equity) ==
    Abs(assets - (liabilities + equity)) <= Units(1)

\* check_balance(assets, liabilities, equity)
check_balance(assets, liabilities, equity) ==
    Abs(assets - (liabilities + equity)) < Units(1)

\* get_balance_tips with the advice of the two branches exchanged
get_balance_tips_swapped(assets, liabilities, equity) ==
    LET difference == assets - (liabilities + equity)
        shown == RoundHalfEven(Abs(difference))
    IN  IF difference > 0
        THEN << <<"assets_higher", shown>>,
                <<"to_balance">>,
                <<"add_to_assets", shown>>,
                <<"reduce_liabilities", shown>>,
                <<"reduce_equity", shown>>,
                <<"combination">> >>
        ELSE IF difference < 0
        THEN << <<"liabilities_plus_equity_higher", shown>>,
                <<"to_balance">>,
                <<"add_to_liabilities", shown>>,
                <<"add_to_equity", shown>>,
                <<"reduce_assets", shown>>,
                <<"combination">> >>
        ELSE << >>

\* get_balance_tips(assets, liabilities, equity): the list of tips, each tip
\* <<text>> or <<text, amount printed in it>>
get_balance_tips(assets, liabilities, equity) ==
    LET difference == assets - (liabilities + equity)
        shown == RoundHalfEven(Abs(difference))
    IN  IF difference > 0
        THEN << <<"assets_higher", shown>>,
                <<"to_balance">>,
                <<"add_to_liabilities", shown>>,
                <<"add_to_equity", shown>>,
                <<"reduce_assets", shown>>,
                <<"combination">> >>
        ELSE IF difference < 0
        THEN << <<"liabilities_plus_equity_higher", shown>>,
                <<"to_balance">>,
                <<"add_to_assets", shown>>,
                <<"reduce_liabilities", shown>>,
                <<"reduce_equity", shown>>,
                <<"combination">> >>
        ELSE << >>

BSFields ==
    {"cash", "accounts_receivable", "inventory", "ppe", "intangible_assets",
     "accounts_payable", "short_term_debt", "long_term_debt",
     "share_capital", "retained_earnings"}

\* the value= arguments of the Learn Mode number inputs
bs_defaults ==
    [cash |-> Units(200000), accounts_receivable |-> Units(150000),
     inventory |-> Units(100000), ppe |-> Units(500000),
     intangible_assets |-> Units(50000), accounts_payable |-> Units(80000),
     short_term_debt |-> Units(70000), long_term_debt |-> Units(300000),
     share_capital |-> Units(300000), retained_earnings |-> Units(150000)]

\* st.number_input(label, value=..., step=...): no min_value and no max_value
\* are given, so the widget returns whatever number was entered
number_input(entered) == entered

\* total_assets with the last asset line left out
bs_total_assets_short(i) ==
    i.cash + i.accounts_receivable + i.inventory + i.ppe

bs_total_assets(i) ==
    i.cash + i.accounts_receivable + i.inventory + i.ppe + i.intangible_assets

\* total_liabilities that also counts share capital as a debt
bs_total_liabilities_wide(i) ==
    i.accounts_payable + i.short_term_debt + i.long_term_debt + i.share_capital

bs_total_liabilities(i) ==
    i.accounts_payable + i.short_term_debt + i.long_term_debt

bs_total_equity(i) == i.share_capital + i.retained_earnings

\* one pass of Learn Mode over the widget values i: what the page shows
BSLearnPass(i) ==
    LET total_assets == bs_total_assets(i)
        total_liabilities == bs_total_liabilities(i)
        total_equity == bs_total_equity(i)
        liabilities_plus_equity == total_liabilities + total_equity
        is_balanced == check_balance(total_assets, total_liabilities, total_equity)
    IN  [total_assets |-> total_assets,
         total_liabilities |-> total_liabilities,
         total_equity |-> total_equity,
         liabilities_plus_equity |-> liabilities_plus_equity,
         is_balanced |-> is_balanced,
         delta |-> format_currency(liabilities_plus_equity - total_assets),
         difference |-> IF is_balanced THEN 0
                        ELSE format_currency(Abs(total_assets - liabilities_plus_equity)),
         tips |-> IF is_balanced THEN << >>
                  ELSE get_balance_tips(total_assets, total_liabilities, total_equity)]

\* values a learner enters into a field whose default is d
BSTyped(d) == {0, -d, d + 1, d + Scale}

(***************************************************************************)
(* balance_sheet_learn.py: Challenge Mode.                                 *)
(***************************************************************************)
\* the options of the challenge selectbox, by the words the branches test
Challenges ==
    {"Challenge 1", "Challenge 2", "Challenge 3", "Challenge 4", "Challenge 5"}

\* the values of the widgets of a page that renders none
no_widgets == [f \in {} |-> 0]

\* the value= arguments of the number inputs of the started challenge
bs_challenge_defaults(game_mode) ==
    IF game_mode = "Challenge 1"
    THEN [cash |-> Units(100000), inventory |-> Units(200000), ppe |-> Units(0),
          liabilities |-> Units(100000), equity |-> Units(200000)]
    ELSE IF game_mode = "Challenge 2"
    THEN [cash |-> Units(100000), inventory |-> Units(400000),
          liabilities |-> Units(200000), equity |-> Units(300000)]
    ELSE IF game_mode = "Challenge 3"
    THEN [cash |-> Units(280000), inventory |-> Units(120000),
          liabilities |-> Units(150000), equity |-> Units(170000)]
    ELSE IF game_mode = "Challenge 4"
    THEN [cash |-> Units(250000), inventory |-> Units(150000),
          liabilities |-> Units(140000), equity |-> Units(200000)]
    ELSE no_widgets

\* the field a challenge stars with "(Fix this!)"
bs_challenge_starred(game_mode) ==
    IF game_mode = "Challenge 1" THEN "ppe"
    ELSE IF game_mode = "Challenge 2" THEN "liabilities"
    ELSE IF game_mode = "Challenge 3" THEN "equity"
    ELSE "cash"

\* the amount the scenario and the hint of a challenge speak of
bs_challenge_hint(game_mode) ==
    IF game_mode = "Challenge 1" THEN Units(100000)
    ELSE IF game_mode = "Challenge 2" THEN Units(150000)
    ELSE IF game_mode = "Challenge 3" THEN Units(80000)
    ELSE Units(60000)

\* the value the scenario and the hint prescribe for the starred field:
\* equipment of 100k added, a loan of 150k added, 80k of equity added,
\* 60k of cash paid out
bs_challenge_fix(game_mode) ==
    LET d == bs_challenge_defaults(game_mode)[bs_challenge_starred(game_mode)]
    IN  IF game_mode = "Challenge 4" THEN d - bs_challenge_hint(game_mode)
        ELSE d + bs_challenge_hint(game_mode)

\* total_assets_c of the started challenge
bs_challenge_total_assets(game_mode, i) ==
    IF game_mode = "Challenge 1" THEN i.cash + i.inventory + i.ppe
    ELSE i.cash + i.inventory

\* one pass of Challenge Mode below the Start button: session_state.game_mode
\* is the started challenge, i the values of its number inputs.  No branch
\* assigns total_assets_c for "Challenge 5", and the status metrics read it.
BSChallengePass(game_mode, i) ==
    IF game_mode = "None" THEN [shown |-> "selection"]
    ELSE IF game_mode = "Challenge 5" THEN [shown |-> "NameError"]
    ELSE
        LET total_assets_c == bs_challenge_total_assets(game_mode, i)
            total_liab_eq_c == i.liabilities + i.equity
            complete == check_balance(total_assets_c, i.liabilities, i.equity)
        IN  [shown |-> "challenge",
             complete |-> complete,
             difference |-> IF complete THEN 0
                            ELSE format_currency(Abs(total_assets_c - total_liab_eq_c)),
             assets |-> format_currency(total_assets_c),
             liabilities_plus_equity |-> format_currency(total_liab_eq_c)]

\* values a learner enters into a challenge field whose default is d: the
\* hinted amount added or taken away, and one sub-unit more
BSChallengeTyped(game_mode, d) ==
    {d + bs_challenge_hint(game_mode), d - bs_challenge_hint(game_mode), d + 1}

(***************************************************************************)
(* balance_sheet_learn.py: Real-World Scenarios.                           *)
(***************************************************************************)
BSScenarios ==
    {"Pizza Restaurant", "Delivery Service", "Tech Startup", "Retail Store"}

\* the steps of the journey slider
JourneySteps == 1 .. 6

\* the running balances before the first step
journey_zero ==
    [cash |-> 0, equipment |-> 0, inventory |-> 0,
     debt |-> 0, equity |-> 0, receivables |-> 0]

\* the balances a pass starts from, were they kept from the pass before
journey_initial_kept(carried) ==
    IF carried.shown = "journey" THEN carried.balances ELSE journey_zero

\* "# Initialize values": every pass starts the balances from 0, whatever the
\* pass before (carried) ended with
journey_initial(carried) == journey_zero

\* the transactions with the equity side of step 5 left out
journey_transaction_one_sided(k, b) ==
    IF k = 1 THEN [b EXCEPT !.cash = @ + Units(200000), !.equity = @ + Units(200000)]
    ELSE IF k = 2 THEN [b EXCEPT !.cash = @ - Units(100000), !.equipment = @ + Units(100000)]
    ELSE IF k = 3 THEN [b EXCEPT !.cash = @ + Units(150000), !.debt = @ + Units(150000)]
    ELSE IF k = 4 THEN [b EXCEPT !.cash = @ - Units(50000), !.inventory = @ + Units(50000)]
    ELSE IF k = 5 THEN [b EXCEPT !.receivables = @ + Units(30000)]
    ELSE [b EXCEPT !.cash = @ - Units(50000), !.debt = @ - Units(50000)]

\* the transaction of step k applied to the balances b
journey_transaction(k, b) ==
    IF k = 1 THEN [b EXCEPT !.cash = @ + Units(200000), !.equity = @ + Units(200000)]
    ELSE IF k = 2 THEN [b EXCEPT !.cash = @ - Units(100000), !.equipment = @ + Units(100000)]
    ELSE IF k = 3 THEN [b EXCEPT !.cash = @ + Units(150000), !.debt = @ + Units(150000)]
    ELSE IF k = 4 THEN [b EXCEPT !.cash = @ - Units(50000), !.inventory = @ + Units(50000)]
    ELSE IF k = 5 THEN [b EXCEPT !.receivables = @ + Units(30000), !.equity = @ + Units(30000)]
    ELSE [b EXCEPT !.cash = @ - Units(50000), !.debt = @ - Units(50000)]

\* "if step >= k:" around the transaction of step k
journey_if_step(k, step, b) == IF step >= k THEN journey_transaction(k, b) ELSE b

\* one pass of the Pizza Restaurant journey with the slider at step
JourneyPass(carried, step) ==
    LET b == journey_if_step(6, step, journey_if_step(5, step,
             journey_if_step(4, step, journey_if_step(3, step,
             journey_if_step(2, step, journey_if_step(1, step,
             journey_initial(carried)))))))
        total == b.cash + b.equipment + b.inventory + b.receivables
    IN  [shown |-> "journey",
         balances |-> b,
         total_assets |-> format_currency(total),
         total_l_e |-> format_currency(b.debt + b.equity),
         balanced |-> check_balance(total, b.debt, b.equity)]

\* one pass of Real-World Scenarios: only the pizza restaurant has a branch
BSRealWorldPass(carried, scenario, step) ==
    IF scenario = "Pizza Restaurant" THEN JourneyPass(carried, step)
    ELSE [shown |-> "nothing"]

(***************************************************************************)
(* profit_loss_learn.py                                                    *)
(***************************************************************************)
\* the margin left as a fraction, the "* 100" forgotten
pl_margin_fraction(x, revenue) == IF revenue > 0 THEN Quot(x, revenue) ELSE Zero

\* x / revenue * 100 if revenue > 0 else 0
pl_margin(x, revenue) == IF revenue > 0 THEN Quot(x * 100, revenue) ELSE Zero

\* calculate_margins with the interest added back instead of deducted
calculate_margins_interest(revenue, cogs, opex, interest, tax) ==
    LET gross_profit == revenue - cogs
        operating_profit == gross_profit - opex
        ebt == operating_profit + interest
        net_income == ebt - tax
    IN  <<gross_profit, operating_profit, ebt, net_income,
          IF revenue > 0 THEN Quot(gross_profit * 100, revenue) ELSE Zero,
          IF revenue > 0 THEN Quot(operating_profit * 100, revenue) ELSE Zero,
          IF revenue > 0 THEN Quot(net_income * 100, revenue) ELSE Zero>>

\* calculate_margins(revenue, cogs, opex, interest, tax): the 7-tuple returned
calculate_margins(revenue, cogs, opex, interest, tax) ==
    LET gross_profit == revenue - cogs
        operating_profit == gross_profit - opex
        ebt == operating_profit - interest
        net_income == ebt - tax
        gross_margin == pl_margin(gross_profit, revenue)
        operating_margin == pl_margin(operating_profit, revenue)
        net_margin == pl_margin(net_income, revenue)
    IN  <<gross_profit, operating_profit, ebt, net_income,
          gross_margin, operating_margin, net_margin>>

PLFields ==
    {"product_sales", "service_revenue", "other_income",
     "raw_materials", "direct_labor", "packaging",
     "marketing", "sales_salaries", "rent", "admin_salaries", "other_opex",
     "interest_expense", "tax_expense"}

\* the value= arguments of the Learn Mode number inputs
pl_defaults ==
    [product_sales |-> Units(500000), service_revenue |-> Units(200000),
     other_income |-> Units(50000), raw_materials |-> Units(150000),
     direct_labor |-> Units(100000), packaging |-> Units(50000),
     marketing |-> Units(50000), sales_salaries |-> Units(80000),
     rent |-> Units(60000), admin_salaries |-> Units(70000),
     other_opex |-> Units(40000), interest_expense |-> Units(30000),
     tax_expense |-> Units(50000)]

pl_total_revenue(i) == i.product_sales + i.service_revenue + i.other_income

pl_total_cogs(i) == i.raw_materials + i.direct_labor + i.packaging

pl_total_opex(i) ==
    i.marketing + i.sales_salaries + i.rent + i.admin_salaries + i.other_opex

\* x / total_revenue * 100 in the "% of Revenue" column: the division is not
\* guarded, so a zero total_revenue raises ZeroDivisionError
pl_pct_of_revenue(x, total_revenue) ==
    IF total_revenue = 0
    THEN [raised |-> TRUE, value |-> Zero]
    ELSE [raised |-> FALSE, value |-> Quot(x * 100, total_revenue)]

\* the "% of Revenue" column of pnl_data (its blank rows left out); building
\* the dict raises as soon as one entry raises
pl_pnl_data(total_revenue, total_cogs, total_opex, interest_expense, tax_expense, ebt, gross_margin, operating_margin, net_margin) ==
    LET cogs_pct == pl_pct_of_revenue(total_cogs, total_revenue)
        opex_pct == pl_pct_of_revenue(total_opex, total_revenue)
        interest_pct == pl_pct_of_revenue(interest_expense, total_revenue)
        ebt_pct == pl_pct_of_revenue(ebt, total_revenue)
        tax_pct == pl_pct_of_revenue(tax_expense, total_revenue)
        raised == \/ cogs_pct.raised \/ opex_pct.raised \/ interest_pct.raised
                  \/ ebt_pct.raised \/ tax_pct.raised
    IN  [error |-> IF raised THEN "ZeroDivisionError" ELSE "none",
         column |-> IF raised THEN << >>
                    ELSE << Quot(100, 1), cogs_pct.value, gross_margin,
                            opex_pct.value, operating_margin,
                            interest_pct.value, ebt_pct.value,
                            tax_pct.value, net_margin >>]

\* one pass of Learn Mode over the widget values i: what the page shows, and
\* the exception that ends the pass, if any
PLLearnPass(i) ==
    LET total_revenue == pl_total_revenue(i)
        total_cogs == pl_total_cogs(i)
        gross_profit == total_revenue - total_cogs
        gross_margin == IF total_revenue > 0
                        THEN Quot(gross_profit * 100, total_revenue) ELSE Zero
        total_opex == pl_total_opex(i)
        operating_profit == gross_profit - total_opex
        operating_margin == IF total_revenue > 0
                            THEN Quot(operating_profit * 100, total_revenue) ELSE Zero
        ebt == operating_profit - i.interest_expense
        net_income == ebt - i.tax_expense
        net_margin == IF total_revenue > 0
                      THEN Quot(net_income * 100, total_revenue) ELSE Zero
        pnl_data == pl_pnl_data(total_revenue, total_cogs, total_opex,
                                i.interest_expense, i.tax_expense, ebt,
                                gross_margin, operating_margin, net_margin)
    IN  [total_revenue |-> total_revenue,
         total_cogs |-> total_cogs,
         gross_profit |-> gross_profit,
         gross_margin |-> gross_margin,
         total_opex |-> total_opex,
         operating_profit |-> operating_profit,
         operating_margin |-> operating_margin,
         ebt |-> ebt,
         net_income |-> net_income,
         net_margin |-> net_margin,
         pct_of_revenue |-> pnl_data.column,
         error |-> pnl_data.error]

\* values a learner enters into a field whose default is d
PLTyped(d) == {0, -d}

(***************************************************************************)
(* profit_loss_learn.py: Challenge Mode.                                   *)
(***************************************************************************)
\* the options of "Choose your strategy:", by the words the branches test
Strategies == {"Raise pizza price", "Reduce COGS", "Cut operating", "Increase sales"}

\* the options of "What's your decision?"
Decisions == {"Option A", "Option B"}

\* the stops of the three sliders of Challenge 2 that are tried; the price is
\* counted in cents
CoffeeTyped(f) ==
    IF f = "sales_volume" THEN {5000, 7000, 10000}
    ELSE IF f = "price" THEN {300, 500, 700}
    ELSE {0, 1000, 10000}

\* the first option of a radio and the value= of a slider
pl_challenge_defaults(game_mode) ==
    IF game_mode = "Challenge 1" THEN [decision |-> "Raise pizza price"]
    ELSE IF game_mode = "Challenge 2"
    THEN [sales_volume |-> 7000, price |-> 500, marketing_spend |-> 0]
    ELSE IF game_mode = "Challenge 3" THEN [decision |-> "Option A"]
    ELSE no_widgets

\* x * 0.2.  Every ebt the tax rules are applied to is a whole multiple of
\* five sub-units, so the fifth is exact.
Fifth(x) == x \div 5

Max(a, b) == IF a > b THEN a ELSE b

\* Challenge 1: net_income = ebt; if net_income > 0: tax = net_income * 0.2,
\* net_income = ebt - tax; else: tax = 0
challenge1_tax_rule(ebt) ==
    LET net_income == ebt
    IN  IF net_income > 0
        THEN [tax |-> Fifth(net_income), net_income |-> ebt - Fifth(net_income)]
        ELSE [tax |-> 0, net_income |-> net_income]

\* Challenge 2: if ebt > 0: tax = ebt * 0.2, net_income = ebt - tax; else:
\* tax = 0, net_income = ebt
challenge2_tax_rule(ebt) ==
    IF ebt > 0 THEN [tax |-> Fifth(ebt), net_income |-> ebt - Fifth(ebt)]
    ELSE [tax |-> 0, net_income |-> ebt]

\* the rule of the pizzeria scenario without the max: a loss earns a refund
pizzeria_tax_rule_refunding(ebt) ==
    [tax |-> Fifth(ebt), net_income |-> ebt - Fifth(ebt)]

\* the pizzeria scenario: tax = max(0, ebt * 0.2); net_income = ebt - tax
pizzeria_tax_rule(ebt) ==
    [tax |-> Max(0, Fifth(ebt)), net_income |-> ebt - Max(0, Fifth(ebt))]

\* revenue, cogs and opex of Challenge 1 after the strategy chosen
strategy_figures(decision) ==
    IF decision = "Raise pizza price"
    THEN [revenue |-> Units(4000 * 25), cogs |-> Units(50000), opex |-> Units(45000)]
    ELSE IF decision = "Reduce COGS"
    THEN [revenue |-> Units(80000), cogs |-> Units(40000), opex |-> Units(45000)]
    ELSE IF decision = "Cut operating"
    THEN [revenue |-> Units(80000), cogs |-> Units(50000), opex |-> Units(35000)]
    ELSE [revenue |-> Units(5000 * 20), cogs |-> Units(50000 + 12500),
          opex |-> Units(45000)]

\* what "Execute Strategy!" computes and shows for the strategy chosen
strategy_results(decision) ==
    LET f == strategy_figures(decision)
        interest == Units(3000)
        gross_profit == f.revenue - f.cogs
        operating_profit == gross_profit - f.opex
        ebt == operating_profit - interest
        tax == challenge1_tax_rule(ebt).tax
        net_income == challenge1_tax_rule(ebt).net_income
    IN  [decision |-> decision, revenue |-> f.revenue, cogs |-> f.cogs,
         opex |-> f.opex, interest |-> interest, gross_profit |-> gross_profit,
         operating_profit |-> operating_profit, tax |-> tax,
         net_income |-> net_income, success |-> net_income > 0]

\* the block under a button, had its output been kept from the pass before
under_button_kept(pressed, computed, carried) ==
    IF pressed THEN <<computed>>
    ELSE IF "results" \in DOMAIN carried THEN carried.results ELSE << >>

\* "if st.button(...):" the block under a button runs, and shows what it
\* computed, only in the pass the press started; carried is what the pass
\* before showed
under_button(pressed, computed, carried) ==
    IF pressed THEN <<computed>> ELSE << >>

\* what Challenge 2 projects from its three sliders
coffee_results(i) ==
    LET revenue == Units((i.sales_volume * i.price) \div 100)
        cogs == Units((i.sales_volume * 3) \div 2)
        opex == Units(20000 + i.marketing_spend)
        interest == Units(1000)
        gross_profit == revenue - cogs
        operating_profit == gross_profit - opex
        ebt == operating_profit - interest
        tax == challenge2_tax_rule(ebt).tax
        net_income == challenge2_tax_rule(ebt).net_income
    IN  [revenue |-> revenue, cogs |-> cogs, opex |-> opex, interest |-> interest,
         gross_profit |-> gross_profit, operating_profit |-> operating_profit,
         ebt |-> ebt, tax |-> tax, net_income |-> net_income,
         total_expenses |-> cogs + opex + interest + tax,
         net_margin |-> IF revenue > 0 THEN Quot(net_income * 100, revenue) ELSE Zero,
         verdict |-> IF net_income > Units(11000) THEN "WINNING"
                     ELSE IF net_income > 0 THEN "Surviving"
                     ELSE "LOSING MONEY"]

\* the figures of an option in its summary (st.write) and in its label of the
\* decision radio; they are text
tshirt_summary(option) ==
    IF option = "Option A"
    THEN [revenue |-> Units(25000), cogs |-> Units(10000), opex |-> Units(8000),
          profit |-> Units(5400), radio_profit |-> Units(5400)]
    ELSE [revenue |-> Units(61000), cogs |-> Units(30000), opex |-> Units(12000),
          profit |-> Units(15200), radio_profit |-> Units(15200)]

\* comparison_data: the column of an option in the comparison table, text too
tshirt_comparison(option) ==
    IF option = "Option A"
    THEN [revenue |-> Units(25000), cogs |-> Units(10000),
          gross_profit |-> Units(15000), opex |-> Units(8000),
          operating_profit |-> Units(7000), tax |-> Units(1400),
          net_income |-> Units(5600)]
    ELSE [revenue |-> Units(61000), cogs |-> Units(30000),
          gross_profit |-> Units(31000), opex |-> Units(12000),
          operating_profit |-> Units(19000), tax |-> Units(3800),
          net_income |-> Units(15200)]

\* what "Make Decision!" shows in Challenge 3: the verdict and the comparison
\* table
tshirt_results(decision) ==
    [verdict |-> IF decision = "Option B" THEN "GREAT CHOICE" ELSE "Playing it safe",
     comparison |-> [o \in Decisions |-> tshirt_comparison(o)]]

\* one pass of Challenge Mode below the Start button; pressed tells whether
\* the pass was started by the button of the challenge.  Challenges 4 and 5
\* have no branch.
PLChallengePass(game_mode, i, pressed, carried) ==
    IF game_mode = "None" THEN [shown |-> "selection"]
    ELSE IF game_mode = "Challenge 1"
    THEN [shown |-> "challenge 1",
          results |-> under_button(pressed, strategy_results(i.decision), carried)]
    ELSE IF game_mode = "Challenge 2"
    THEN [shown |-> "challenge 2", projected |-> coffee_results(i)]
    ELSE IF game_mode = "Challenge 3"
    THEN [shown |-> "challenge 3",
          summary |-> [o \in Decisions |-> tshirt_summary(o)],
          results |-> under_button(pressed, tshirt_results(i.decision), carried)]
    ELSE [shown |-> "nothing"]

(***************************************************************************)
(* profit_loss_learn.py: Real-World Scenarios.                             *)
(***************************************************************************)
PLScenarios == {"Pizza Restaurant", "Mobile App", "Gym", "E-commerce Store"}

\* the months of the pizzeria slider and the quarters of the app slider
Months == 1 .. 12

Quarters == 1 .. 8

\* monthly_data: Tony's Pizzeria, month by month; the story by sentences
monthly_data(m) ==
    IF m = 1 THEN [revenue |-> Units(15000), cogs |-> Units(9000), opex |-> Units(18000),
        story |-> <<"Grand Opening!", "Lots of expenses (renovations, marketing), low sales.", "First month jitters!">>]
    ELSE IF m = 2 THEN [revenue |-> Units(22000), cogs |-> Units(13000), opex |-> Units(15000),
        story |-> <<"Word is spreading!", "Sales improving as people discover us.", "Still spending heavily on marketing.">>]
    ELSE IF m = 3 THEN [revenue |-> Units(30000), cogs |-> Units(17000), opex |-> Units(14000),
        story |-> <<"Getting known!", "Local newspaper featured us.", "Sales climbing, reduced marketing spend.">>]
    ELSE IF m = 4 THEN [revenue |-> Units(35000), cogs |-> Units(19000), opex |-> Units(13000),
        story |-> <<"Finding rhythm!", "Operations smoothing out.", "First profitable month!">>]
    ELSE IF m = 5 THEN [revenue |-> Units(40000), cogs |-> Units(22000), opex |-> Units(13000),
        story |-> <<"Summer boost!", "Patio seating open.", "Catering for local events.">>]
    ELSE IF m = 6 THEN [revenue |-> Units(45000), cogs |-> Units(24000), opex |-> Units(14000),
        story |-> <<"Hitting stride!", "Hired second pizza chef.", "Tourist season helps.">>]
    ELSE IF m = 7 THEN [revenue |-> Units(42000), cogs |-> Units(23000), opex |-> Units(13500),
        story |-> <<"Vacation slowdown", "Many regulars on vacation, but still solid.">>]
    ELSE IF m = 8 THEN [revenue |-> Units(38000), cogs |-> Units(21000), opex |-> Units(13000),
        story |-> <<"Back to school", "Families back, but slower than summer peak.">>]
    ELSE IF m = 9 THEN [revenue |-> Units(48000), cogs |-> Units(26000), opex |-> Units(14000),
        story |-> <<"Football season!", "Game day specials are huge.", "Best month yet!">>]
    ELSE IF m = 10 THEN [revenue |-> Units(44000), cogs |-> Units(24000), opex |-> Units(13500),
        story |-> <<"Autumn steady", "Consistent regulars.", "Holiday catering orders coming in.">>]
    ELSE IF m = 11 THEN [revenue |-> Units(52000), cogs |-> Units(28000), opex |-> Units(15000),
        story |-> <<"Holiday parties!", "Thanksgiving catering boom.", "Extra staff needed.">>]
    ELSE [revenue |-> Units(55000), cogs |-> Units(30000), opex |-> Units(16000),
        story |-> <<"Holiday season!", "Office parties, family gatherings.", "Best revenue ever!">>]

\* interest = 2000, the constant loan payment
pizzeria_interest == Units(2000)

\* earnings before tax with the operating expenses left out
pizzeria_ebt_without_opex(revenue, cogs, opex, interest) ==
    (revenue - cogs) - interest

\* gross_profit, operating_profit and ebt of a month
pizzeria_ebt(revenue, cogs, opex, interest) ==
    ((revenue - cogs) - opex) - interest

\* m_profit of the trend chart: the net income of month m
pizzeria_profit(m) ==
    LET m_ebt == pizzeria_ebt(monthly_data(m).revenue, monthly_data(m).cogs,
                              monthly_data(m).opex, pizzeria_interest)
    IN  pizzeria_tax_rule(m_ebt).net_income

\* the year-to-date sum that leaves the selected month out
RECURSIVE cumulative_short(_, _)
cumulative_short(field, month) ==
    IF month <= 1 THEN 0
    ELSE monthly_data(month - 1)[field] + cumulative_short(field, month - 1)

\* sum([monthly_data[m][field] for m in range(1, month+1)])
RECURSIVE cumulative(_, _)
cumulative(field, month) ==
    IF month = 0 THEN 0
    ELSE monthly_data(month)[field] + cumulative(field, month - 1)

\* one pass of the pizzeria scenario with the slider at month
PizzeriaPass(month) ==
    LET data == monthly_data(month)
        interest == pizzeria_interest
        gross_profit == data.revenue - data.cogs
        operating_profit == gross_profit - data.opex
        ebt == pizzeria_ebt(data.revenue, data.cogs, data.opex, interest)
        tax == pizzeria_tax_rule(ebt).tax
        net_income == pizzeria_tax_rule(ebt).net_income
        cumulative_revenue == cumulative("revenue", month)
        cumulative_cogs == cumulative("cogs", month)
        cumulative_opex == cumulative("opex", month)
        cumulative_interest == interest * month
        cumulative_ebt == cumulative_revenue - cumulative_cogs
                            - cumulative_opex - cumulative_interest
        cumulative_tax == pizzeria_tax_rule(cumulative_ebt).tax
        cumulative_profit == pizzeria_tax_rule(cumulative_ebt).net_income
    IN  [shown |-> "pizzeria",
         story |-> data.story,
         revenue |-> data.revenue, cogs |-> data.cogs, opex |-> data.opex,
         interest |-> interest,
         net_income |-> net_income,
         profitable |-> net_income > 0,
         net_margin |-> IF net_income > 0 THEN Quot(net_income * 100, data.revenue)
                        ELSE Zero,
         cumulative_revenue |-> cumulative_revenue,
         total_expenses |-> cumulative_cogs + cumulative_opex
                              + cumulative_interest + cumulative_tax,
         cumulative_profit |-> cumulative_profit,
         profitable_ytd |-> cumulative_profit > 0,
         revenues |-> [m \in 1 .. month |-> monthly_data(m).revenue],
         profits |-> [m \in 1 .. month |-> pizzeria_profit(m)]]

\* quarters_data: the SocialBuzz app, quarter by quarter
quarters_data(q) ==
    IF q = 1 THEN [users |-> 5000, revenue |-> Units(2000), opex |-> Units(150000),
        story |-> <<"Launch Quarter!", "Huge development costs, minimal revenue.", "Focus is on building the product.">>]
    ELSE IF q = 2 THEN [users |-> 25000, revenue |-> Units(10000), opex |-> Units(180000),
        story |-> <<"User Growth!", "Going viral on TikTok.", "Heavy marketing spend.", "Still burning cash.">>]
    ELSE IF q = 3 THEN [users |-> 75000, revenue |-> Units(45000), opex |-> Units(200000),
        story |-> <<"Traction!", "Featured on app stores.", "Added in-app purchases.", "Revenue accelerating!">>]
    ELSE IF q = 4 THEN [users |-> 150000, revenue |-> Units(120000), opex |-> Units(220000),
        story |-> <<"Scale Mode!", "Hired more developers.", "Server costs increasing with users.">>]
    ELSE IF q = 5 THEN [users |-> 300000, revenue |-> Units(240000), opex |-> Units(250000),
        story |-> <<"Revenue > OpEx!", "First profitable quarter!", "Investors happy!">>]
    ELSE IF q = 6 THEN [users |-> 500000, revenue |-> Units(400000), opex |-> Units(280000),
        story |-> <<"Growth Sustaining!", "Premium subscriptions working.", "Unit economics looking good.">>]
    ELSE IF q = 7 THEN [users |-> 750000, revenue |-> Units(600000), opex |-> Units(320000),
        story |-> <<"Premium Focus!", "Converting free users to paid.", "Margins improving.">>]
    ELSE [users |-> 1000000, revenue |-> Units(850000), opex |-> Units(350000),
        story |-> <<"Million Users!", "Major milestone.", "Considering Series B funding.">>]

\* cogs = revenue * 0.15: every revenue of the table is a whole multiple of
\* twenty units, so the product is exact
app_cogs(revenue) == (revenue * 15) \div 100

\* the profit or loss of quarter q, as the trend chart and the pass compute it
app_profit(q) ==
    (quarters_data(q).revenue - app_cogs(quarters_data(q).revenue))
        - quarters_data(q).opex

\* one pass of the app scenario with the slider at quarter
AppPass(quarter) ==
    LET data == quarters_data(quarter)
        cogs == app_cogs(data.revenue)
        gross_profit == data.revenue - cogs
        operating_profit == gross_profit - data.opex
        net_income == operating_profit
    IN  [shown |-> "app",
         story |-> data.story,
         users |-> data.users,
         users_delta |-> IF quarter > 1
                         THEN data.users - quarters_data(quarter - 1).users ELSE 0,
         revenue |-> data.revenue, opex |-> data.opex, cogs |-> cogs,
         net_income |-> net_income,
         metric |-> IF net_income < 0 THEN "Burn Rate" ELSE "Profit",
         amount |-> format_currency(Abs(net_income)),
         profitable |-> net_income > 0,
         revenue_per_user |-> IF data.users > 0
                              THEN Quot(data.revenue, Units(data.users)) ELSE Zero,
         profit_trend |-> [q \in 1 .. quarter |-> app_profit(q)]]

\* one pass of Real-World Scenarios: two of the four scenarios have a branch
PLRealWorldPass(scenario, stage) ==
    IF scenario = "Pizza Restaurant" THEN PizzeriaPass(stage)
    ELSE IF scenario = "Mobile App" THEN AppPass(stage)
    ELSE [shown |-> "nothing"]

(***************************************************************************)
(* financial_ratio_learn.py                                                *)
(***************************************************************************)
\* get_ratio_status with the first thresholds compared strictly (> 1.5, < 1
\* becoming <= 1)
get_ratio_status_strict(value, ratio_type) ==
    IF ratio_type = "current"
    THEN IF GtR(value, 3, 2) THEN <<"green-metric", "Excellent">>
         ELSE IF GeqR(value, 1, 1) THEN <<"yellow-metric", "Acceptable">>
         ELSE <<"red-metric", "Poor">>
    ELSE IF ratio_type = "quick"
    THEN IF GeqR(value, 1, 1) THEN <<"green-metric", "Good">>
         ELSE <<"yellow-metric", "Caution">>
    ELSE IF ratio_type = "leverage"
    THEN IF ~GtR(value, 1, 1) THEN <<"green-metric", "Conservative">>
         ELSE IF LtR(value, 2, 1) THEN <<"yellow-metric", "Moderate">>
         ELSE <<"red-metric", "Aggressive">>
    ELSE <<"None">>

\* get_ratio_status(value, ratio_type): (css class, status text); a ratio_type
\* other than the three known ones falls through and returns None
get_ratio_status(value, ratio_type) ==
    IF ratio_type = "current"
    THEN IF GeqR(value, 3, 2) THEN <<"green-metric", "Excellent">>
         ELSE IF GeqR(value, 1, 1) THEN <<"yellow-metric", "Acceptable">>
         ELSE <<"red-metric", "Poor">>
    ELSE IF ratio_type = "quick"
    THEN IF GeqR(value, 1, 1) THEN <<"green-metric", "Good">>
         ELSE <<"yellow-metric", "Caution">>
    ELSE IF ratio_type = "leverage"
    THEN IF LtR(value, 1, 1) THEN <<"green-metric", "Conservative">>
         ELSE IF LtR(value, 2, 1) THEN <<"yellow-metric", "Moderate">>
         ELSE <<"red-metric", "Aggressive">>
    ELSE <<"None">>

RTFields ==
    {"current_assets", "inventory", "total_assets", "current_liabilities",
     "total_liabilities", "equity", "revenue", "cogs", "operating_expenses",
     "interest_expense", "tax_expense", "net_income"}

\* the value= arguments of the page's number inputs
rt_defaults ==
    [current_assets |-> Units(1000000), inventory |-> Units(200000),
     total_assets |-> Units(2000000), current_liabilities |-> Units(500000),
     total_liabilities |-> Units(1200000), equity |-> Units(800000),
     revenue |-> Units(1500000), cogs |-> Units(800000),
     operating_expenses |-> Units(300000), interest_expense |-> Units(50000),
     tax_expense |-> Units(100000), net_income |-> Units(250000)]

\* balance_check = abs(total_assets - (total_liabilities + equity))
rt_balance_check(i) == Abs(i.total_assets - (i.total_liabilities + i.equity))

\* if balance_check < 1: BALANCED
rt_balanced(i) == rt_balance_check(i) < Units(1)

rt_gross_profit(i) == i.revenue - i.cogs

rt_operating_income(i) == rt_gross_profit(i) - i.operating_expenses

rt_current_ratio(i) ==
    IF i.current_liabilities > 0
    THEN Quot(i.current_assets, i.current_liabilities) ELSE Zero

rt_quick_ratio(i) ==
    IF i.current_liabilities > 0
    THEN Quot(i.current_assets - i.inventory, i.current_liabilities) ELSE Zero

rt_debt_to_equity(i) ==
    IF i.equity > 0 THEN Quot(i.total_liabilities, i.equity) ELSE Zero

rt_debt_to_assets(i) ==
    IF i.total_assets > 0 THEN Quot(i.total_liabilities, i.total_assets) ELSE Zero

rt_gross_margin(i) ==
    IF i.revenue > 0 THEN Quot(i.revenue - i.cogs, i.revenue) ELSE Zero

rt_operating_margin(i) ==
    IF i.revenue > 0 THEN Quot(rt_operating_income(i), i.revenue) ELSE Zero

rt_net_margin(i) ==
    IF i.revenue > 0 THEN Quot(i.net_income, i.revenue) ELSE Zero

rt_roa(i) ==
    IF i.total_assets > 0 THEN Quot(i.net_income, i.total_assets) ELSE Zero

rt_roe(i) == IF i.equity > 0 THEN Quot(i.net_income, i.equity) ELSE Zero

\* the health check with the top liquidity tier worth 30
rt_health_generous(current_ratio, debt_to_equity, net_margin, roe) ==
    LET liquidity == IF GeqR(current_ratio, 3, 2) THEN <<30, "Strong liquidity position">>
                     ELSE IF GeqR(current_ratio, 1, 1) THEN <<15, "Adequate liquidity">>
                     ELSE <<0, "Liquidity concerns">>
        leverage == IF LtR(debt_to_equity, 1, 1) THEN <<25, "Conservative debt levels">>
                    ELSE IF LtR(debt_to_equity, 2, 1) THEN <<15, "Moderate debt levels">>
                    ELSE <<0, "High debt risk">>
        margin == IF GtR(net_margin, 1, 10) THEN <<25, "Healthy profit margins">>
                  ELSE IF GtR(net_margin, 0, 1) THEN <<15, "Thin profit margins">>
                  ELSE <<0, "Operating at a loss">>
        returns == IF GtR(roe, 3, 20) THEN <<25, "Excellent returns for shareholders">>
                   ELSE IF GtR(roe, 1, 10) THEN <<15, "Moderate returns for shareholders">>
                   ELSE <<0, "Poor shareholder returns">>
        health_score == liquidity[1] + leverage[1] + margin[1] + returns[1]
    IN  [health_score |-> health_score,
         health_messages |-> <<liquidity[2], leverage[2], margin[2], returns[2]>>,
         progress |-> Quot(health_score, 100)]

\* Quick Health Check: health_score, health_messages and the value handed to
\* st.progress; the thresholds are 1.5 and 1, 1 and 2, 0.1 and 0, 0.15 and 0.10
rt_health(current_ratio, debt_to_equity, net_margin, roe) ==
    LET liquidity == IF GeqR(current_ratio, 3, 2) THEN <<25, "Strong liquidity position">>
                     ELSE IF GeqR(current_ratio, 1, 1) THEN <<15, "Adequate liquidity">>
                     ELSE <<0, "Liquidity concerns">>
        leverage == IF LtR(debt_to_equity, 1, 1) THEN <<25, "Conservative debt levels">>
                    ELSE IF LtR(debt_to_equity, 2, 1) THEN <<15, "Moderate debt levels">>
                    ELSE <<0, "High debt risk">>
        margin == IF GtR(net_margin, 1, 10) THEN <<25, "Healthy profit margins">>
                  ELSE IF GtR(net_margin, 0, 1) THEN <<15, "Thin profit margins">>
                  ELSE <<0, "Operating at a loss">>
        returns == IF GtR(roe, 3, 20) THEN <<25, "Excellent returns for shareholders">>
                   ELSE IF GtR(roe, 1, 10) THEN <<15, "Moderate returns for shareholders">>
                   ELSE <<0, "Poor shareholder returns">>
        health_score == liquidity[1] + leverage[1] + margin[1] + returns[1]
    IN  [health_score |-> health_score,
         health_messages |-> <<liquidity[2], leverage[2], margin[2], returns[2]>>,
         progress |-> Quot(health_score, 100)]

\* one pass of the ratio page over the widget values i: what the page shows
RTPass(i) ==
    [balance_check |-> rt_balance_check(i),
     balanced |-> rt_balanced(i),
     gross_profit |-> rt_gross_profit(i),
     operating_income |-> rt_operating_income(i),
     current_ratio |-> rt_current_ratio(i),
     quick_ratio |-> rt_quick_ratio(i),
     debt_to_equity |-> rt_debt_to_equity(i),
     debt_to_assets |-> rt_debt_to_assets(i),
     gross_margin |-> rt_gross_margin(i),
     operating_margin |-> rt_operating_margin(i),
     net_margin |-> rt_net_margin(i),
     roa |-> rt_roa(i),
     roe |-> rt_roe(i),
     current_status |-> get_ratio_status(rt_current_ratio(i), "current"),
     quick_status |-> get_ratio_status(rt_quick_ratio(i), "quick"),
     leverage_status |-> get_ratio_status(rt_debt_to_equity(i), "leverage"),
     health |-> rt_health(rt_current_ratio(i), rt_debt_to_equity(i),
                          rt_net_margin(i), rt_roe(i))]

\* values a learner enters into a field whose default is d
RTTyped(d) == {0, -d, d + 1, d + Scale}

(***************************************************************************)
(* State.                                                                  *)
(***************************************************************************)
VARIABLES
    script,   \* the script that is running, or "helpers" for direct calls
    bs,       \* balance sheet Learn Mode: the values of the number inputs
    bsOut,    \* balance sheet Learn Mode: what the last pass displayed
    pl,       \* P&L Learn Mode: the values of the number inputs
    plOut,    \* P&L Learn Mode: what the last pass displayed
    rt,       \* ratio page: the values of the number inputs
    rtOut,    \* ratio page: what the last pass displayed
    call,     \* the last direct call of a helper: its name and arguments
    ret,      \* what that call returned
    mode,     \* the learning mode chosen with the radio
    challenge,      \* Challenge Mode: the option of the challenge selectbox
    session_state,  \* st.session_state
    ch,       \* Challenge Mode: the values of the started challenge's widgets
    chOut,    \* Challenge Mode: what the last pass displayed
    scenario, \* Real-World Scenarios: the option of the scenario selectbox
    stage,    \* Real-World Scenarios: the value of the scenario's slider
    stageOut  \* Real-World Scenarios: what the last pass displayed

learnVars == <<bs, bsOut, pl, plOut, rt, rtOut>>

gameVars == <<mode, challenge, session_state, ch, chOut>>

stageVars == <<scenario, stage, stageOut>>

vars == <<script, learnVars, call, ret, gameVars, stageVars>>

Scripts == {"balance_sheet_learn", "profit_loss_learn", "financial_ratio_learn"}

\* the number of fields of i that differ from their defaults
Edited(i, defaults, fields) == Cardinality({f \in fields : i[f] # defaults[f]})

\* the options of the mode radio, by the words the branches test
Modes == {"Learn", "Challenge", "Real-World"}

\* the scripts that have the mode radio
ModeScripts == {"balance_sheet_learn", "profit_loss_learn"}

\* "if ... not in st.session_state:" what a new session is given
session_init(s) ==
    IF s = "balance_sheet_learn"
    THEN [game_mode |-> "None", game_score |-> 0, challenges_completed |-> 0]
    ELSE IF s = "profit_loss_learn"
    THEN [game_mode |-> "None", game_score |-> 0]
    ELSE no_widgets

\* what a page shows of a mode that is not the chosen one
not_shown == [shown |-> "none"]

\* page load: the first pass runs on the defaults of every widget, the radio
\* on its first option
Init ==
    /\ script \in Scripts \cup {"helpers"}
    /\ bs = bs_defaults
    /\ bsOut = BSLearnPass(bs_defaults)
    /\ pl = pl_defaults
    /\ plOut = PLLearnPass(pl_defaults)
    /\ rt = rt_defaults
    /\ rtOut = RTPass(rt_defaults)
    /\ call = <<"none">>
    /\ ret = <<"none">>
    /\ mode = "Learn"
    /\ challenge = "Challenge 1"
    /\ session_state = session_init(script)
    /\ ch = no_widgets
    /\ chOut = not_shown
    /\ scenario = "Pizza Restaurant"
    /\ stage = 1
    /\ stageOut = not_shown

\* the learner changes one balance sheet Learn Mode input; the script reruns
EditBS ==
    /\ script = "balance_sheet_learn"
    /\ mode = "Learn"
    /\ \E f \in BSFields : \E v \in BSTyped(bs_defaults[f]) \cup {bs_defaults[f]} :
         LET i == [bs EXCEPT ![f] = number_input(v)]
         IN  /\ Edited(i, bs_defaults, BSFields) <= MaxEditedBS
             /\ bs' = i
             /\ bsOut' = BSLearnPass(i)
    /\ UNCHANGED <<script, pl, plOut, rt, rtOut, call, ret, gameVars, stageVars>>

\* the learner changes one P&L Learn Mode input; the script reruns
EditPL ==
    /\ script = "profit_loss_learn"
    /\ mode = "Learn"
    /\ \E f \in PLFields : \E v \in PLTyped(pl_defaults[f]) \cup {pl_defaults[f]} :
         LET i == [pl EXCEPT ![f] = number_input(v)]
         IN  /\ Edited(i, pl_defaults, PLFields) <= MaxEditedPL
             /\ pl' = i
             /\ plOut' = PLLearnPass(i)
    /\ UNCHANGED <<script, bs, bsOut, rt, rtOut, call, ret, gameVars, stageVars>>

\* the learner changes one ratio page input; the script reruns
EditRT ==
    /\ script = "financial_ratio_learn"
    /\ \E f \in RTFields : \E v \in RTTyped(rt_defaults[f]) \cup {rt_defaults[f]} :
         LET i == [rt EXCEPT ![f] = number_input(v)]
         IN  /\ Edited(i, rt_defaults, RTFields) <= MaxEditedRT
             /\ rt' = i
             /\ rtOut' = RTPass(i)
    /\ UNCHANGED <<script, bs, bsOut, pl, plOut, call, ret, gameVars, stageVars>>

\* amounts and ratio values handed to a helper called directly
Args == -1 .. MaxArg

RatioArgs == {Quot(n, d) : n \in Args, d \in 1 .. MaxDen}

CallCheckBalance ==
    /\ script = "helpers"
    /\ \E a \in Args, l \in 0 .. 2, e \in 0 .. 2 :
         /\ call' = <<"check_balance", a, l, e>>
         /\ ret' = check_balance(a, l, e)
    /\ UNCHANGED <<script, bs, bsOut, pl, plOut, rt, rtOut, gameVars, stageVars>>

CallGetBalanceTips ==
    /\ script = "helpers"
    /\ \E a \in Args, l \in 0 .. 2, e \in 0 .. 2 :
         /\ call' = <<"get_balance_tips", a, l, e>>
         /\ ret' = get_balance_tips(a, l, e)
    /\ UNCHANGED <<script, bs, bsOut, pl, plOut, rt, rtOut, gameVars, stageVars>>

CallCalculateMargins ==
    /\ script = "helpers"
    /\ \E revenue \in Args, cogs \in 0 .. 2, opex \in 0 .. 1,
          interest \in 0 .. 1, tax \in 0 .. 1 :
         /\ call' = <<"calculate_margins", revenue, cogs, opex, interest, tax>>
         /\ ret' = calculate_margins(revenue, cogs, opex, interest, tax)
    /\ UNCHANGED <<script, bs, bsOut, pl, plOut, rt, rtOut, gameVars, stageVars>>

CallGetRatioStatus ==
    /\ script = "helpers"
    /\ \E value \in RatioArgs, ratio_type \in {"current", "quick", "leverage"} :
         /\ call' = <<"get_ratio_status", value, ratio_type>>
         /\ ret' = get_ratio_status(value, ratio_type)
    /\ UNCHANGED <<script, bs, bsOut, pl, plOut, rt, rtOut, gameVars, stageVars>>

Next ==
    \/ EditBS
    \/ EditPL
    \/ EditRT
    \/ CallCheckBalance
    \/ CallGetBalanceTips
    \/ CallCalculateMargins
    \/ CallGetRatioStatus

Spec == Init /\ [][Next]_vars

\* each script, and the helper calls, on their own
InitBS == Init /\ script = "balance_sheet_learn"

SpecBS == InitBS /\ [][EditBS]_vars

InitPL == Init /\ script = "profit_loss_learn"

SpecPL == InitPL /\ [][EditPL]_vars

InitRT == Init /\ script = "financial_ratio_learn"

SpecRT == InitRT /\ [][EditRT]_vars

NextHelpers ==
    \/ CallCheckBalance
    \/ CallGetBalanceTips
    \/ CallCalculateMargins
    \/ CallGetRatioStatus

InitHelpers == Init /\ script = "helpers"

SpecHelpers == InitHelpers /\ [][NextHelpers]_vars

\* the places that compute tax and net income from earnings before tax
TaxSites == {"Challenge 1", "Challenge 2", "Pizzeria"}

tax_rule(site, ebt) ==
    IF site = "Challenge 1" THEN challenge1_tax_rule(ebt)
    ELSE IF site = "Challenge 2" THEN challenge2_tax_rule(ebt)
    ELSE pizzeria_tax_rule(ebt)

\* earnings before tax handed to a tax rule
TaxArgs == {5 * k : k \in -MaxEbt .. MaxEbt}

\* the statements of one place are run on some earnings before tax
ApplyTaxRule ==
    /\ script = "helpers"
    /\ \E site \in TaxSites, ebt \in TaxArgs :
         /\ call' = <<"tax_rule", site, ebt>>
         /\ ret' = tax_rule(site, ebt)
    /\ UNCHANGED <<script, learnVars, gameVars, stageVars>>

SpecTax == InitHelpers /\ [][ApplyTaxRule]_vars

(***************************************************************************)
(* Challenge Mode and Real-World Scenarios.  A widget that a pass does not *)
(* render loses its value: it is back on its default when it is rendered   *)
(* again.  st.session_state lasts as long as the session.                  *)
(***************************************************************************)
\* the defaults of the widgets of the started challenge
challenge_defaults(s, game_mode) ==
    IF s = "balance_sheet_learn" THEN bs_challenge_defaults(game_mode)
    ELSE pl_challenge_defaults(game_mode)

\* one pass of Challenge Mode below the Start button
ChallengePass(s, game_mode, i, pressed, carried) ==
    IF s = "balance_sheet_learn" THEN BSChallengePass(game_mode, i)
    ELSE PLChallengePass(game_mode, i, pressed, carried)

\* one pass of Real-World Scenarios
RealWorldPass(s, carried, sc, k) ==
    IF s = "balance_sheet_learn" THEN BSRealWorldPass(carried, sc, k)
    ELSE PLRealWorldPass(sc, k)

\* the options of the scenario selectbox
ScenariosOf(s) == IF s = "balance_sheet_learn" THEN BSScenarios ELSE PLScenarios

\* the range of the slider of a scenario; a scenario without a branch has none
StagesOf(s, sc) ==
    IF sc = "Pizza Restaurant"
    THEN (IF s = "balance_sheet_learn" THEN JourneySteps ELSE Months)
    ELSE IF s = "profit_loss_learn" /\ sc = "Mobile App" THEN Quarters
    ELSE {}

\* the learner chooses another mode with the radio; the script reruns and
\* renders the widgets of that mode only
SelectMode ==
    /\ script \in ModeScripts
    /\ \E m \in Modes \ {mode} :
         LET i == IF m = "Challenge"
                  THEN challenge_defaults(script, session_state.game_mode)
                  ELSE no_widgets
         IN  /\ mode' = m
             /\ challenge' = "Challenge 1"
             /\ ch' = i
             /\ chOut' = IF m = "Challenge"
                         THEN ChallengePass(script, session_state.game_mode, i,
                                            FALSE, chOut)
                         ELSE not_shown
             /\ scenario' = "Pizza Restaurant"
             /\ stage' = 1
             /\ stageOut' = IF m = "Real-World"
                            THEN RealWorldPass(script, stageOut, "Pizza Restaurant", 1)
                            ELSE not_shown
    /\ bs' = bs_defaults
    /\ bsOut' = BSLearnPass(bs_defaults)
    /\ pl' = pl_defaults
    /\ plOut' = PLLearnPass(pl_defaults)
    /\ UNCHANGED <<script, rt, rtOut, call, ret, session_state>>

\* the selectbox, had picking an option started the challenge at once
SelectChallenge_starting ==
    /\ script \in ModeScripts
    /\ mode = "Challenge"
    /\ \E c \in Challenges \ {challenge} :
         /\ challenge' = c
         /\ session_state' = [session_state EXCEPT !.game_mode = c]
         /\ ch' = challenge_defaults(script, c)
         /\ chOut' = ChallengePass(script, c, challenge_defaults(script, c), FALSE, chOut)
    /\ UNCHANGED <<script, learnVars, call, ret, mode, stageVars>>

\* the learner picks another option of the challenge selectbox; the script
\* reruns, the started challenge stays what session_state says
SelectChallenge ==
    /\ script \in ModeScripts
    /\ mode = "Challenge"
    /\ \E c \in Challenges \ {challenge} :
         /\ challenge' = c
         /\ chOut' = ChallengePass(script, session_state.game_mode, ch, FALSE, chOut)
    /\ UNCHANGED <<script, learnVars, call, ret, mode, session_state, ch, stageVars>>

\* the learner presses "Start Challenge!": session_state.game_mode becomes
\* the option selected, and the pass goes on into that challenge
StartChallenge ==
    /\ script \in ModeScripts
    /\ mode = "Challenge"
    /\ LET i == IF challenge = session_state.game_mode THEN ch
                ELSE challenge_defaults(script, challenge)
       IN  /\ session_state' = [session_state EXCEPT !.game_mode = challenge]
           /\ ch' = i
           /\ chOut' = ChallengePass(script, challenge, i, FALSE, chOut)
    /\ UNCHANGED <<script, learnVars, call, ret, mode, challenge, stageVars>>

\* the learner changes one number input of the started balance sheet
\* challenge; the script reruns
EditChallenge ==
    /\ script = "balance_sheet_learn"
    /\ mode = "Challenge"
    /\ session_state.game_mode \in Challenges \ {"Challenge 5"}
    /\ LET d == bs_challenge_defaults(session_state.game_mode)
       IN  \E f \in DOMAIN d :
             \E v \in BSChallengeTyped(session_state.game_mode, d[f]) \cup {d[f]} :
               LET i == [ch EXCEPT ![f] = number_input(v)]
               IN  /\ Edited(i, d, DOMAIN d) <= MaxEditedCH
                   /\ ch' = i
                   /\ chOut' = BSChallengePass(session_state.game_mode, i)
    /\ UNCHANGED <<script, learnVars, call, ret, mode, challenge, session_state,
                   stageVars>>

\* the learner picks another option of the radio of P&L Challenge 1 or 3; the
\* script reruns with no button pressed
ChooseOption ==
    /\ script = "profit_loss_learn"
    /\ mode = "Challenge"
    /\ session_state.game_mode \in {"Challenge 1", "Challenge 3"}
    /\ \E d \in (IF session_state.game_mode = "Challenge 1"
                 THEN Strategies ELSE Decisions) \ {ch.decision} :
         LET i == [ch EXCEPT !.decision = d]
         IN  /\ ch' = i
             /\ chOut' = PLChallengePass(session_state.game_mode, i, FALSE, chOut)
    /\ UNCHANGED <<script, learnVars, call, ret, mode, challenge, session_state,
                   stageVars>>

\* the learner presses "Execute Strategy!" or "Make Decision!"
PressButton ==
    /\ script = "profit_loss_learn"
    /\ mode = "Challenge"
    /\ session_state.game_mode \in {"Challenge 1", "Challenge 3"}
    /\ chOut' = PLChallengePass(session_state.game_mode, ch, TRUE, chOut)
    /\ UNCHANGED <<script, learnVars, call, ret, mode, challenge, session_state,
                   ch, stageVars>>

\* the learner moves one slider of P&L Challenge 2; the script reruns
MoveSlider ==
    /\ script = "profit_loss_learn"
    /\ mode = "Challenge"
    /\ session_state.game_mode = "Challenge 2"
    /\ \E f \in DOMAIN ch : \E v \in CoffeeTyped(f) \ {ch[f]} :
         LET i == [ch EXCEPT ![f] = v]
         IN  /\ ch' = i
             /\ chOut' = PLChallengePass(session_state.game_mode, i, FALSE, chOut)
    /\ UNCHANGED <<script, learnVars, call, ret, mode, challenge, session_state,
                   stageVars>>

\* the learner picks another scenario; its slider is new, on its default 1
SelectScenario ==
    /\ script \in ModeScripts
    /\ mode = "Real-World"
    /\ \E sc \in ScenariosOf(script) \ {scenario} :
         /\ scenario' = sc
         /\ stage' = 1
         /\ stageOut' = RealWorldPass(script, stageOut, sc, 1)
    /\ UNCHANGED <<script, learnVars, call, ret, gameVars>>

\* the learner moves the slider of the scenario to another stage
SelectStage ==
    /\ script \in ModeScripts
    /\ mode = "Real-World"
    /\ \E k \in StagesOf(script, scenario) \ {stage} :
         /\ stage' = k
         /\ stageOut' = RealWorldPass(script, stageOut, scenario, k)
    /\ UNCHANGED <<script, learnVars, call, ret, gameVars, scenario>>

NextGame ==
    \/ SelectMode
    \/ SelectChallenge
    \/ StartChallenge
    \/ EditChallenge
    \/ ChooseOption
    \/ PressButton
    \/ MoveSlider
    \/ SelectScenario
    \/ SelectStage

InitGame == Init /\ script \in ModeScripts

SpecGame == InitGame /\ [][NextGame]_vars

(***************************************************************************)
(* Properties.                                                             *)
(***************************************************************************)
\* C1: with every balance sheet Learn Mode input at its default, the page
\* shows total assets 1000000, total liabilities 450000, total equity 450000
\* and reports the sheet balanced with a delta of 0.
C1_AtDefaults ==
    /\ bs.cash = 200000 * Scale
    /\ bs.accounts_receivable = 150000 * Scale
    /\ bs.inventory = 100000 * Scale
    /\ bs.ppe = 500000 * Scale
    /\ bs.intangible_assets = 50000 * Scale
    /\ bs.accounts_payable = 80000 * Scale
    /\ bs.short_term_debt = 70000 * Scale
    /\ bs.long_term_debt = 300000 * Scale
    /\ bs.share_capital = 300000 * Scale
    /\ bs.retained_earnings = 150000 * Scale

\* C1 as stated: the defaults give the three totals and a balanced sheet.
C1_DefaultsBalanced ==
    C1_AtDefaults =>
        /\ bsOut.total_assets = 1000000 * Scale
        /\ bsOut.total_liabilities = 450000 * Scale
        /\ bsOut.total_equity = 450000 * Scale
        /\ bsOut.total_assets - bsOut.liabilities_plus_equity = 0
        /\ bsOut.is_balanced

\* C1 (amended): the defaults give total assets 1000000, total liabilities
\* 450000 and total equity 450000, so liabilities plus equity is 900000 and
\* the sheet is reported NOT balanced, with a difference of 100000 and the
\* tips for assets being higher.
C1_DefaultsUnbalanced ==
    C1_AtDefaults =>
        /\ bsOut.total_assets = 1000000 * Scale
        /\ bsOut.total_liabilities = 450000 * Scale
        /\ bsOut.total_equity = 450000 * Scale
        /\ bsOut.liabilities_plus_equity = 900000 * Scale
        /\ bsOut.total_assets - bsOut.liabilities_plus_equity = 100000 * Scale
        /\ ~bsOut.is_balanced
        /\ bsOut.difference = 100000
        /\ bsOut.delta = -100000
        /\ Len(bsOut.tips) = 6
        /\ bsOut.tips[1] = <<"assets_higher", 100000>>

C1_Witness ==
    /\ script = "balance_sheet_learn"
    /\ C1_AtDefaults
    /\ ~bsOut.is_balanced
    /\ bsOut.difference = 100000

\* C2: in balance sheet Learn Mode the total of assets is the sum of the five
\* asset fields, the total of liabilities the sum of the three liability
\* fields, the total of equity share capital plus retained earnings, and
\* liabilities plus equity the sum of the last two totals; nothing else
\* contributes.
C2_TotalsAreSums ==
    /\ bsOut.total_assets =
         bs.cash + bs.accounts_receivable + bs.inventory + bs.ppe
         + bs.intangible_assets
    /\ bsOut.total_liabilities =
         bs.accounts_payable + bs.short_term_debt + bs.long_term_debt
    /\ bsOut.total_equity = bs.share_capital + bs.retained_earnings
    /\ bsOut.liabilities_plus_equity =
         bs.accounts_payable + bs.short_term_debt + bs.long_term_debt
         + bs.share_capital + bs.retained_earnings

C2_Witness ==
    /\ script = "balance_sheet_learn"
    /\ bs.intangible_assets = 0
    /\ bs.share_capital = 300000 * Scale + Scale
    /\ bsOut.total_assets = 950000 * Scale
    /\ bsOut.liabilities_plus_equity = 900001 * Scale

\* the difference assets - (liabilities + equity) of the three places a
\* balance verdict is given
C3_BSDiff == bsOut.total_assets - (bsOut.total_liabilities + bsOut.total_equity)

C3_RTDiff == rt.total_assets - (rt.total_liabilities + rt.equity)

C3_CallDiff == call[2] - (call[3] + call[4])

C3_Within(d) == -Scale < d /\ d < Scale

\* C3: a sheet is reported balanced exactly when |assets - (liabilities +
\* equity)| is below one currency unit: balanced at a difference of 0, not
\* balanced at a difference of exactly 1 or -1; check_balance and the ratio
\* page's own check agree on this.
C3_BalancedIffWithinOne ==
    /\ bsOut.is_balanced <=> C3_Within(C3_BSDiff)
    /\ C3_BSDiff = 0 => bsOut.is_balanced
    /\ C3_BSDiff \in {Scale, -Scale} => ~bsOut.is_balanced
    /\ rtOut.balanced <=> C3_Within(C3_RTDiff)
    /\ C3_RTDiff = 0 => rtOut.balanced
    /\ C3_RTDiff \in {Scale, -Scale} => ~rtOut.balanced
    /\ call[1] = "check_balance" =>
         /\ ret <=> C3_Within(C3_CallDiff)
         /\ C3_CallDiff = 0 => ret
         /\ C3_CallDiff \in {Scale, -Scale} => ~ret

C3_Witness ==
    /\ script = "balance_sheet_learn"
    /\ C3_BSDiff = -Scale
    /\ ~bsOut.is_balanced

\* C4: the P&L cascade is gross profit = revenue - cogs, operating profit =
\* gross profit - opex, ebt = operating profit - interest, net income = ebt -
\* tax; calculate_margins returns these, and what P&L Learn Mode computes
\* inline on its totals is what calculate_margins returns for those totals.
C4_Cascade ==
    /\ call[1] = "calculate_margins" =>
         /\ ret[1] = call[2] - call[3]
         /\ ret[2] = ret[1] - call[4]
         /\ ret[3] = ret[2] - call[5]
         /\ ret[4] = ret[3] - call[6]
    /\ plOut.gross_profit = plOut.total_revenue - plOut.total_cogs
    /\ plOut.operating_profit = plOut.gross_profit - plOut.total_opex
    /\ plOut.ebt = plOut.operating_profit - pl.interest_expense
    /\ plOut.net_income = plOut.ebt - pl.tax_expense
    /\ <<plOut.gross_profit, plOut.operating_profit, plOut.ebt, plOut.net_income,
         plOut.gross_margin, plOut.operating_margin, plOut.net_margin>>
       = calculate_margins(plOut.total_revenue, plOut.total_cogs, plOut.total_opex,
                           pl.interest_expense, pl.tax_expense)

C4_Witness ==
    /\ script = "profit_loss_learn"
    /\ pl.interest_expense = -30000 * Scale
    /\ pl.raw_materials = 0
    /\ plOut.ebt = 280000 * Scale
    /\ plOut.net_income = 230000 * Scale

\* C5 as stated: every margin, of calculate_margins and of the ratio page, is
\* the profit level divided by revenue when revenue > 0 and 0 when revenue
\* is 0.
C5_MarginsAreQuotients ==
    /\ call[1] = "calculate_margins" /\ call[2] > 0 =>
         /\ ret[5] = Quot(ret[1], call[2])
         /\ ret[6] = Quot(ret[2], call[2])
         /\ ret[7] = Quot(ret[4], call[2])
    /\ call[1] = "calculate_margins" /\ call[2] = 0 =>
         ret[5] = Zero /\ ret[6] = Zero /\ ret[7] = Zero
    /\ rt.revenue > 0 =>
         /\ rtOut.gross_margin = Quot(rtOut.gross_profit, rt.revenue)
         /\ rtOut.operating_margin = Quot(rtOut.operating_income, rt.revenue)
         /\ rtOut.net_margin = Quot(rt.net_income, rt.revenue)
    /\ rt.revenue = 0 =>
         /\ rtOut.gross_margin = Zero
         /\ rtOut.operating_margin = Zero
         /\ rtOut.net_margin = Zero

\* C5 (amended): when revenue > 0, calculate_margins returns each margin as a
\* percentage, 100 times the profit level divided by revenue, and the ratio
\* page shows the plain quotient (gross profit, operating income and the Net
\* Income field over revenue); when revenue is 0 every one of them is 0,
\* whatever the cost fields hold.
C5_MarginsPercentOrFraction ==
    /\ call[1] = "calculate_margins" /\ call[2] > 0 =>
         /\ ret[5] = Quot(100 * (call[2] - call[3]), call[2])
         /\ ret[6] = Quot(100 * (call[2] - call[3] - call[4]), call[2])
         /\ ret[7] = Quot(100 * (call[2] - call[3] - call[4] - call[5] - call[6]),
                          call[2])
    /\ call[1] = "calculate_margins" /\ call[2] = 0 =>
         ret[5] = Zero /\ ret[6] = Zero /\ ret[7] = Zero
    /\ rt.revenue > 0 =>
         /\ rtOut.gross_margin = Quot(rt.revenue - rt.cogs, rt.revenue)
         /\ rtOut.operating_margin =
              Quot(rt.revenue - rt.cogs - rt.operating_expenses, rt.revenue)
         /\ rtOut.net_margin = Quot(rt.net_income, rt.revenue)
    /\ rt.revenue = 0 =>
         /\ rtOut.gross_margin = Zero
         /\ rtOut.operating_margin = Zero
         /\ rtOut.net_margin = Zero

C5_Witness ==
    /\ script = "helpers"
    /\ call = <<"calculate_margins", 4, 1, 1, 1, 0>>
    /\ ret[5] = <<75, 1>>
    /\ ret[7] = <<25, 1>>

\* C6: a pass of P&L Learn Mode over non-negative inputs never raises; with
\* a total revenue of 0 the margins are 0 and no division by zero happens,
\* the "% of Revenue" column included.
C6_PassNeverRaises ==
    (\A f \in PLFields : pl[f] >= 0) =>
        /\ plOut.error = "none"
        /\ plOut.total_revenue = 0 =>
             /\ plOut.gross_margin = Zero
             /\ plOut.operating_margin = Zero
             /\ plOut.net_margin = Zero

\* C7: on the ratio page each of the six ratios is its numerator divided by
\* its denominator, and exactly 0 when the denominator is 0.
C7_Ratio(value, n, d) ==
    /\ d # 0 => value = Quot(n, d)
    /\ d = 0 => value = Zero

C7_RatiosAreQuotients ==
    /\ C7_Ratio(rtOut.current_ratio, rt.current_assets, rt.current_liabilities)
    /\ C7_Ratio(rtOut.quick_ratio, rt.current_assets - rt.inventory,
                rt.current_liabilities)
    /\ C7_Ratio(rtOut.debt_to_equity, rt.total_liabilities, rt.equity)
    /\ C7_Ratio(rtOut.debt_to_assets, rt.total_liabilities, rt.total_assets)
    /\ C7_Ratio(rtOut.roa, rt.net_income, rt.total_assets)
    /\ C7_Ratio(rtOut.roe, rt.net_income, rt.equity)

C9_Delta == call[2] - (call[3] + call[4])

\* the three levers of a tip list, in the order given, and their amounts
C9_Levers == <<ret[3][1], ret[4][1], ret[5][1]>>

C9_Amounts == {ret[3][2], ret[4][2], ret[5][2]}

C9_LeversNamed ==
    /\ C9_Delta > 0 =>
         /\ Len(ret) = 6
         /\ C9_Levers = <<"add_to_liabilities", "add_to_equity", "reduce_assets">>
    /\ C9_Delta < 0 =>
         /\ Len(ret) = 6
         /\ C9_Levers = <<"add_to_assets", "reduce_liabilities", "reduce_equity">>
    /\ C9_Delta = 0 => ret = << >>

\* C9 as stated: the three levers of get_balance_tips each carry the exact
\* magnitude |delta|; the list is empty when delta = 0.
C9_TipsExactMagnitude ==
    call[1] = "get_balance_tips" =>
        /\ C9_LeversNamed
        /\ C9_Delta # 0 => \A a \in C9_Amounts : a * Scale = Abs(C9_Delta)

\* C9 (amended): for delta > 0 the tips name increase liabilities, increase
\* equity, decrease assets, for delta < 0 increase assets, decrease
\* liabilities, decrease equity, each with |delta| rounded to the nearest
\* whole currency unit (a tie to the even one), so with |delta| itself when
\* delta is a whole number of units; the list is empty when delta = 0.
C9_TipsRoundedMagnitude ==
    call[1] = "get_balance_tips" =>
        /\ C9_LeversNamed
        /\ C9_Delta # 0 =>
             \A a \in C9_Amounts :
                /\ 2 * Abs(a * Scale - Abs(C9_Delta)) <= Scale
                /\ 2 * Abs(a * Scale - Abs(C9_Delta)) = Scale => a % 2 = 0
                /\ Abs(C9_Delta) % Scale = 0 => a * Scale = Abs(C9_Delta)

C9_Witness ==
    /\ call[1] = "get_balance_tips"
    /\ C9_Delta = -(Scale + 1)
    /\ ret[3] = <<"add_to_assets", 2>>
    /\ ret[5] = <<"reduce_equity", 2>>

\* C10: no input field of any page ever holds a negative value.
C10_NoNegativeInput ==
    /\ \A f \in BSFields : bs[f] >= 0
    /\ \A f \in PLFields : pl[f] >= 0
    /\ \A f \in RTFields : rt[f] >= 0

\* C11: stage-jump determinism.  In every staged scenario (restaurant journey
\* step 1..6, pizzeria month 1..12, app quarter 1..8) what the page shows
\* depends on the selected stage only: after any sequence of selections that
\* ends at stage k the page shows the same balances and metrics, year-to-date
\* figures included, as after selecting k directly on a fresh page, and the
\* same as after visiting the stages 1..k in order.
C11_Direct(s, sc, k) ==
    RealWorldPass(s, RealWorldPass(s, not_shown, sc, 1), sc, k)

RECURSIVE C11_InOrder(_, _, _)
C11_InOrder(s, sc, k) ==
    IF k = 1 THEN RealWorldPass(s, not_shown, sc, 1)
    ELSE RealWorldPass(s, C11_InOrder(s, sc, k - 1), sc, k)

C11_StageJumpDeterminism ==
    (script \in ModeScripts /\ mode = "Real-World"
        /\ StagesOf(script, scenario) # {}) =>
        /\ stageOut = C11_Direct(script, scenario, stage)
        /\ stageOut = C11_InOrder(script, scenario, stage)

\* the journey slider stands at step 4 and the page shows the balances after
\* the four transactions
C11_Witness ==
    /\ script = "balance_sheet_learn"
    /\ mode = "Real-World"
    /\ scenario = "Pizza Restaurant"
    /\ stage = 4
    /\ stageOut.balances.cash = Units(200000)
    /\ stageOut.balances.inventory = Units(50000)

\* C12: the net income behind net margin, ROA and ROE is always the derived
\* revenue - cogs - operating expenses - interest - tax of the same inputs: on
\* the ratio page net_margin, roa and roe are that value over revenue, total
\* assets and equity, and cannot diverge from the entered fields.  Stated for
\* inputs that are all non-negative.
C12_Derived(i) ==
    (((i.revenue - i.cogs) - i.operating_expenses) - i.interest_expense)
        - i.tax_expense

C12_NetIncomeIsDerived ==
    (script = "financial_ratio_learn" /\ \A f \in RTFields : rt[f] >= 0) =>
        /\ rt.revenue > 0 => rtOut.net_margin = Quot(C12_Derived(rt), rt.revenue)
        /\ rt.total_assets > 0 => rtOut.roa = Quot(C12_Derived(rt), rt.total_assets)
        /\ rt.equity > 0 => rtOut.roe = Quot(C12_Derived(rt), rt.equity)

\* Challenge Mode and Real-World Scenarios together with the edits of the
\* balance sheet Learn Mode
NextSession ==
    \/ NextGame
    \/ EditBS

SpecSession == InitGame /\ [][NextSession]_vars

\* C13: no stale value.  After any sequence of input edits, button presses
\* and mode, challenge, scenario or stage selections, every derived value on
\* display equals its formula applied to the widget values of the same pass:
\* the Learn Mode totals and verdict, the totals and verdict of the started
\* challenge, the results under "Execute Strategy!" and "Make Decision!", the
\* projection of the sliders and the figures of the selected stage.  What
\* belongs to a mode that is not chosen is not on display, and session_state
\* holds the started challenge and the two counters only.
C13_LearnFresh ==
    /\ bsOut.total_assets = bs.cash + bs.accounts_receivable + bs.inventory
                              + bs.ppe + bs.intangible_assets
    /\ bsOut.total_liabilities = bs.accounts_payable + bs.short_term_debt
                                   + bs.long_term_debt
    /\ bsOut.total_equity = bs.share_capital + bs.retained_earnings
    /\ bsOut.is_balanced =
         (Abs(bsOut.total_assets - (bsOut.total_liabilities + bsOut.total_equity))
            < Units(1))

C13_ChallengeFresh ==
    /\ mode # "Challenge" => chOut = not_shown
    /\ mode = "Challenge" =>
         (chOut.shown = "selection") = (session_state.game_mode = "None")
    /\ (script = "balance_sheet_learn" /\ chOut.shown = "challenge") =>
         LET assets == ch.cash + ch.inventory
                         + (IF "ppe" \in DOMAIN ch THEN ch.ppe ELSE 0)
         IN  /\ chOut.assets = format_currency(assets)
             /\ chOut.liabilities_plus_equity =
                  format_currency(ch.liabilities + ch.equity)
             /\ chOut.complete =
                  (Abs(assets - (ch.liabilities + ch.equity)) < Units(1))
    /\ (script = "profit_loss_learn" /\ chOut.shown = "challenge 1") =>
         \A n \in DOMAIN chOut.results :
            /\ chOut.results[n].decision = ch.decision
            /\ chOut.results[n].revenue =
                 (IF ch.decision \in {"Raise pizza price", "Increase sales"}
                  THEN Units(100000) ELSE Units(80000))
            /\ chOut.results[n].gross_profit =
                 chOut.results[n].revenue - chOut.results[n].cogs
    /\ (script = "profit_loss_learn" /\ chOut.shown = "challenge 2") =>
         /\ chOut.projected.revenue * 100 = Units(ch.sales_volume * ch.price)
         /\ chOut.projected.opex = Units(20000 + ch.marketing_spend)
    /\ (script = "profit_loss_learn" /\ chOut.shown = "challenge 3") =>
         \A n \in DOMAIN chOut.results :
            (chOut.results[n].verdict = "GREAT CHOICE") = (ch.decision = "Option B")

C13_StageFresh ==
    /\ mode # "Real-World" => stageOut = not_shown
    /\ stageOut.shown = "journey" =>
         /\ script = "balance_sheet_learn" /\ scenario = "Pizza Restaurant"
         /\ stageOut.balances.equipment = (IF stage >= 2 THEN Units(100000) ELSE 0)
         /\ stageOut.balances.receivables = (IF stage >= 5 THEN Units(30000) ELSE 0)
         /\ stageOut.total_assets =
              format_currency(stageOut.balances.cash + stageOut.balances.equipment
                  + stageOut.balances.inventory + stageOut.balances.receivables)
    /\ stageOut.shown = "pizzeria" =>
         /\ script = "profit_loss_learn" /\ scenario = "Pizza Restaurant"
         /\ stageOut.revenue = monthly_data(stage).revenue
         /\ stageOut.story = monthly_data(stage).story
         /\ DOMAIN stageOut.profits = 1 .. stage
    /\ stageOut.shown = "app" =>
         /\ script = "profit_loss_learn" /\ scenario = "Mobile App"
         /\ stageOut.revenue = quarters_data(stage).revenue
         /\ stageOut.story = quarters_data(stage).story
         /\ DOMAIN stageOut.profit_trend = 1 .. stage

C13_NoStaleValue ==
    /\ C13_LearnFresh
    /\ C13_ChallengeFresh
    /\ C13_StageFresh
    /\ DOMAIN session_state \subseteq {"game_mode", "game_score", "challenges_completed"}

\* a strategy other than the first was chosen and then executed: its results
\* are on display
C13_Witness ==
    /\ script = "profit_loss_learn"
    /\ mode = "Challenge"
    /\ session_state.game_mode = "Challenge 1"
    /\ ch.decision = "Cut operating"
    /\ Len(chOut.results) = 1
    /\ chOut.results[1].opex = Units(35000)

\* C15: in the pizza-restaurant journey the running balances after the steps
\* 1..k satisfy cash + equipment + inventory + receivables = debt + equity
\* exactly, for every step k in 1..6, and the page reports the balance sheet
\* as balanced at every step.
C15_JourneyBalanced ==
    stageOut.shown = "journey" =>
        /\ stageOut.balances.cash + stageOut.balances.equipment
             + stageOut.balances.inventory + stageOut.balances.receivables
             = stageOut.balances.debt + stageOut.balances.equity
        /\ stageOut.balanced
        /\ stageOut.total_assets = stageOut.total_l_e

\* the slider stands at the last step: 330000 of assets against 100000 of
\* debt and 230000 of equity
C15_Witness ==
    /\ stageOut.shown = "journey"
    /\ stage = 6
    /\ stageOut.balances.debt = Units(100000)
    /\ stageOut.balances.equity = Units(230000)
    /\ stageOut.total_assets = 330000

\* C16: in each of the balance sheet Challenges 1 to 4 the pre-filled values
\* form an unbalanced sheet: while every field of the started challenge is at
\* its default, check_balance on the challenge's totals is false and the
\* challenge is not reported complete.
C16_DefaultsUnbalanced ==
    (script = "balance_sheet_learn" /\ chOut.shown = "challenge"
        /\ ch = bs_challenge_defaults(session_state.game_mode)) =>
        ~chOut.complete

\* C17: in each of the balance sheet Challenges 1 to 4, the starred field set
\* to the value the scenario and the hint prescribe (Challenge 1 Equipment
\* 100000, Challenge 2 Total Liabilities 350000, Challenge 3 Total Equity
\* 250000, Challenge 4 Cash 190000) with every other field at its default
\* completes the challenge.
C17_PrescribedFixCompletes ==
    (script = "balance_sheet_learn" /\ chOut.shown = "challenge"
        /\ ch = [bs_challenge_defaults(session_state.game_mode)
                   EXCEPT ![bs_challenge_starred(session_state.game_mode)] =
                              bs_challenge_fix(session_state.game_mode)]) =>
        chOut.complete

\* C18: each successful fix earns points: whenever the sheet of the started
\* balance sheet challenge goes from unbalanced to balanced, game_score and
\* challenges_completed are strictly greater after the step than before.
C18_Fixed ==
    /\ script = "balance_sheet_learn"
    /\ chOut.shown = "challenge" /\ ~chOut.complete
    /\ chOut'.shown = "challenge" /\ chOut'.complete
    /\ session_state'.game_mode = session_state.game_mode

C18_FixEarnsPoints ==
    [][C18_Fixed =>
          /\ session_state'.game_score > session_state.game_score
          /\ session_state'.challenges_completed > session_state.challenges_completed]_vars

\* a story has the sentence
C19_Says(story, sentence) == \E n \in DOMAIN story : story[n] = sentence

\* C19: in the pizzeria scenario the story agrees with the numbers: the month
\* whose story says "First profitable month!" is month 4, its net income
\* (revenue - cogs - opex - 2000 of interest, less 20% tax when positive) is
\* greater than 0, and the months 1 to 3 all have a net income below 0, on the
\* page of the month and in the trend chart.
C19_FirstProfitableMonth ==
    stageOut.shown = "pizzeria" =>
        /\ C19_Says(stageOut.story, "First profitable month!") = (stage = 4)
        /\ stage = 4 => (stageOut.net_income > 0 /\ stageOut.profitable)
        /\ stage <= 3 => (stageOut.net_income < 0 /\ ~stageOut.profitable)
        /\ \A m \in DOMAIN stageOut.profits :
              (m <= 3 => stageOut.profits[m] < 0) /\ (m = 4 => stageOut.profits[m] > 0)
        /\ stageOut.profits[stage] = stageOut.net_income

\* the slider stands at month 4: 35000 - 19000 - 13000 - 2000 = 1000 before
\* tax, 800 after
C19_Witness ==
    /\ stageOut.shown = "pizzeria"
    /\ stage = 4
    /\ C19_Says(stageOut.story, "First profitable month!")
    /\ stageOut.net_income = Units(800)

\* C20: in the mobile-app scenario the story agrees with the numbers: the
\* quarter whose story says "Revenue > OpEx!" and "First profitable quarter!"
\* (quarter 5) has a revenue greater than its opex and is the first quarter
\* whose net income (revenue - 15% of revenue as COGS - opex) is greater
\* than 0.
C20_FirstProfitableQuarter ==
    stageOut.shown = "app" =>
        /\ C19_Says(stageOut.story, "Revenue > OpEx!") => stageOut.revenue > stageOut.opex
        /\ C19_Says(stageOut.story, "First profitable quarter!") =>
              /\ stage = 5
              /\ stageOut.net_income > 0
              /\ stageOut.profitable
              /\ \A q \in DOMAIN stageOut.profit_trend :
                    q < stage => stageOut.profit_trend[q] <= 0

\* C21: in P&L Challenge 3 every after-tax profit stated for an option agrees
\* with the option's line items under the 20% tax rule: for Option A and for
\* Option B the profit of the option summary and of the decision radio is
\* revenue - COGS - OpEx less 20% tax, and it equals the NET INCOME of the
\* comparison table, which is the table's operating profit minus its tax.
C21_AfterTax(revenue, cogs, opex) ==
    ((revenue - cogs) - opex) - (((revenue - cogs) - opex) \div 5)

C21_ProfitFiguresAgree ==
    (script = "profit_loss_learn" /\ chOut.shown = "challenge 3") =>
        \A o \in Decisions :
            /\ chOut.summary[o].profit = chOut.summary[o].radio_profit
            /\ chOut.summary[o].profit =
                 C21_AfterTax(chOut.summary[o].revenue, chOut.summary[o].cogs,
                              chOut.summary[o].opex)
            /\ \A n \in DOMAIN chOut.results :
                  /\ chOut.results[n].comparison[o].net_income = chOut.summary[o].profit
                  /\ chOut.results[n].comparison[o].net_income =
                       chOut.results[n].comparison[o].operating_profit
                         - chOut.results[n].comparison[o].tax
                  /\ 5 * chOut.results[n].comparison[o].tax =
                       chOut.results[n].comparison[o].operating_profit

\* C22: in balance sheet Challenge Mode, whichever of the five challenges of
\* the selectbox was started ("Challenge 5: Random Challenge" included), the
\* pass completes without an error and the status summary shows an Assets
\* total and a Liabilities + Equity total of that challenge.
C22_StartedChallengeShowsTotals ==
    (script = "balance_sheet_learn" /\ mode = "Challenge"
        /\ session_state.game_mode \in Challenges) =>
        /\ chOut.shown # "NameError"
        /\ chOut.shown = "challenge"
        /\ {"assets", "liabilities_plus_equity"} \subseteq DOMAIN chOut

\* C23: the frame of session game_mode on both challenge pages.  It starts
\* as None; it changes only in a pass of Challenge Mode started by the Start
\* button, and then to the option the selectbox holds at that moment; picking
\* another option, switching the learning mode and editing an input leave it
\* unchanged; once set it never returns to None.
C23_Step ==
    /\ session_state'.game_mode # session_state.game_mode =>
          /\ mode = "Challenge" /\ mode' = "Challenge"
          /\ challenge' = challenge
          /\ session_state'.game_mode = challenge
    /\ (challenge' # challenge \/ mode' # mode) =>
          session_state'.game_mode = session_state.game_mode
    /\ session_state.game_mode # "None" => session_state'.game_mode # "None"
    /\ session_state'.game_score = session_state.game_score

C23_GameModeFrame ==
    /\ session_state.game_mode = "None"
    /\ [][C23_Step]_vars

\* Challenge 3 was started and Challenge 1 is selected again: the page shows
\* the sheet of Challenge 3 under a selectbox that says Challenge 1
C23_Witness ==
    /\ script = "balance_sheet_learn"
    /\ mode = "Challenge"
    /\ challenge = "Challenge 1"
    /\ session_state.game_mode = "Challenge 3"
    /\ chOut.shown = "challenge"
    /\ chOut.assets = 400000

\* C24: for every input snapshot of the ratio page the health score is the
\* sum of four components (liquidity, leverage, net margin, ROE), each worth
\* 0, 15 or 25: it lies in 0..100, the progress fraction health_score / 100
\* lies in [0, 1], exactly four health messages are produced, one per
\* component in that order, and the score is 100 only when all four
\* components are in their top tier.
C24_Tiers ==
    <<{"Strong liquidity position", "Adequate liquidity", "Liquidity concerns"},
      {"Conservative debt levels", "Moderate debt levels", "High debt risk"},
      {"Healthy profit margins", "Thin profit margins", "Operating at a loss"},
      {"Excellent returns for shareholders", "Moderate returns for shareholders",
       "Poor shareholder returns"}>>

C24_Top ==
    {"Strong liquidity position", "Conservative debt levels",
     "Healthy profit margins", "Excellent returns for shareholders"}

C24_Middle ==
    {"Adequate liquidity", "Moderate debt levels", "Thin profit margins",
     "Moderate returns for shareholders"}

C24_HealthScore ==
    script = "financial_ratio_learn" =>
        LET h == rtOut.health
            top == Cardinality({n \in 1 .. 4 : h.health_messages[n] \in C24_Top})
            middle == Cardinality({n \in 1 .. 4 : h.health_messages[n] \in C24_Middle})
        IN  /\ Len(h.health_messages) = 4
            /\ \A n \in 1 .. 4 : h.health_messages[n] \in C24_Tiers[n]
            /\ h.health_score = 25 * top + 15 * middle
            /\ h.health_score \in 0 .. 100
            /\ h.progress = Quot(h.health_score, 100)
            /\ GeqR(h.progress, 0, 1) /\ ~GtR(h.progress, 1, 1)
            /\ (h.health_score = 100) =
                 (/\ GeqR(rtOut.current_ratio, 3, 2)
                  /\ LtR(rtOut.debt_to_equity, 1, 1)
                  /\ GtR(rtOut.net_margin, 1, 10)
                  /\ GtR(rtOut.roe, 3, 20))

\* the liabilities were set to 0: all four components are in their top tier
C24_Witness ==
    /\ script = "financial_ratio_learn"
    /\ rt.total_liabilities = 0
    /\ rtOut.health.health_score = 100
    /\ rtOut.health.progress = <<1, 1>>

\* C25: the three places that compute tax and net income from earnings before
\* tax (P&L Challenge 1, Challenge 2 and the pizzeria scenario with its trend
\* chart) implement one rule: tax is 20% of ebt when ebt > 0 and 0 otherwise,
\* net income is ebt - tax; hence for every ebt the tax is not negative, the
\* net income is at most ebt, and the net income is positive exactly when ebt
\* is.
C25_SameTaxRule ==
    call[1] = "tax_rule" =>
        LET ebt == call[3]
        IN  /\ ebt > 0 => 5 * ret.tax = ebt
            /\ ebt <= 0 => ret.tax = 0
            /\ ret.net_income = ebt - ret.tax
            /\ ret.tax >= 0
            /\ ret.net_income <= ebt
            /\ (ret.net_income > 0) = (ebt > 0)
            /\ \A site \in TaxSites : tax_rule(site, ebt) = ret

\* the rule of the pizzeria scenario was run on a loss: no tax
C25_Witness ==
    /\ call = <<"tax_rule", "Pizzeria", -10>>
    /\ ret = [tax |-> 0, net_income |-> -10]

\* the sum of the first k values of a list
RECURSIVE C26_Sum(_, _)
C26_Sum(values, k) ==
    IF k = 0 THEN 0 ELSE values[k] + C26_Sum(values, k - 1)

\* C26: in the pizzeria scenario, for every month k the year-to-date net
\* profit shown for months 1..k equals the sum of the monthly net profits of
\* months 1..k, the values plotted in the trend chart.
C26_YearToDateIsSumOfMonths ==
    (script = "profit_loss_learn" /\ stageOut.shown = "pizzeria") =>
        stageOut.cumulative_profit = C26_Sum(stageOut.profits, stage)

\* C27: in P&L Challenge 1 every one of the four strategies yields a net
\* income above zero when executed, so each choice leads to the success
\* outcome and none to "Still Losing".
C27_EveryStrategyTurnsAProfit ==
    (script = "profit_loss_learn" /\ chOut.shown = "challenge 1") =>
        \A n \in DOMAIN chOut.results :
            /\ chOut.results[n].net_income > 0
            /\ chOut.results[n].success
====
